---- MODULE Spec2Model ----
(***************************************************************************)
(* Model of multilingual/interact_id.py: the language prompt, the          *)
(* self-play and interactive loops of run(), sample_sequence(),            *)
(* top_filtering() and the speaker tagging of build_input_from_segments(). *)
(*                                                                         *)
(* Three specifications share the module:                                  *)
(*   Spec        run(): language prompt, self-play / interactive loop      *)
(*   SpecSample  one call of sample_sequence()                             *)
(*   SpecFilter  one call of top_filtering()                               *)
(* The variables of the other two are left at their initial values.        *)
(*                                                                         *)
(* Abstractions.  A token sequence produced by tokenizer.encode or by      *)
(* sample_sequence is an utterance record [kind, conv, n] naming where it  *)
(* was produced (its token content does not influence run()).  A logit x   *)
(* is kept as the weight exp(x) up to a common factor, so that softmax is  *)
(* weight / sum of weights, the filter value -inf is weight 0 and the      *)
(* order of logits is the order of weights.                                *)
(***************************************************************************)
EXTENDS Integers, Sequences, FiniteSets, TLC

VARIABLES
    \* ---- run()
    pc,                 \* position in run()
    lang,               \* the variable lang (raw input, then "<xx>")
    self_play,          \* args.self_play
    max_turns,          \* args.max_turns
    personalities,      \* key of dataset["test"] the personalities were read from
    history,            \* the list history
    j, i,               \* loop counters of the self-play loops
    starter,            \* the variable starter
    self_conversations, \* self_conversations["dialog"]
    outfile,            \* lines of the jsonl transcript appended by this run
    raw_text,           \* the variable raw_text
    turn,               \* completed iterations of the interactive while True
    calls,              \* number of calls of sample_sequence made by run()
    \* ---- sample_sequence()
    s_pc, s_args, s_i, current_output, probs, prev, warned,
    \* ---- top_filtering()
    f_pc, f_args, f_logits, f_out

run_vars == <<pc, lang, self_play, max_turns, personalities, history, j, i,
              starter, self_conversations, outfile, raw_text, turn, calls>>
sample_vars == <<s_pc, s_args, s_i, current_output, probs, prev, warned>>
filter_vars == <<f_pc, f_args, f_logits, f_out>>
vars == <<run_vars, sample_vars, filter_vars>>

(***************************************************************************)
(* Bounds of the model                                                     *)
(***************************************************************************)
MaxTurnsArg == 4        \* --max_turns ranges over 1..MaxTurnsArg
MaxInteractive == 6     \* interactive turns explored (the loop is endless)

(***************************************************************************)
(* Program constants                                                       *)
(***************************************************************************)
N_CONVERSATIONS == 50   \* for j in range(50)
N_TURNS == 13           \* for i in range(13)

\* the list of line 162
LANGS == {"en", "fr", "it", "id", "jp", "ko", "zh"}

\* what the user may type at the language prompt
LangInputs == LANGS \cup {"", "de", "EN", "<en>"}

\* "<{}>".format(lang)
FormatLang(x) == "<" \o x \o ">"

LANG_MAP == [k \in {"<en>", "<fr>", "<it>", "<id>", "<jp>", "<ko>", "<zh>"} |->
    CASE k = "<en>" -> "En" [] k = "<fr>" -> "Fr" [] k = "<it>" -> "It"
      [] k = "<id>" -> "Id" [] k = "<jp>" -> "Jp" [] k = "<ko>" -> "Ko"
      [] k = "<zh>" -> "Zh"]

\* the dict starters; the three sentences of a language are named by position
starters == [k \in {"<en>", "<zh>", "<it>", "<jp>", "<ko>", "<id>", "<fr>"} |->
    <<k \o "1", k \o "2", k \o "3">>]

\* the while condition of line 162
LangRejectedLoose(x) == x \notin (LANGS \cup {"de"})
LangRejected(x) == x \notin LANGS

\* history[-n:]  (Python slice: n = 0 keeps everything, n < 0 drops a prefix)
TruncateOffByOne(h, n) ==
    IF Len(h) > n + 1 THEN SubSeq(h, Len(h) - n, Len(h)) ELSE h
TruncateNever(h, n) == h
Truncate(h, n) ==
    IF n > 0 THEN (IF Len(h) > n THEN SubSeq(h, Len(h) - n + 1, Len(h)) ELSE h)
    ELSE IF n = 0 THEN h
    ELSE SubSeq(h, (IF Len(h) < -n THEN Len(h) ELSE -n) + 1, Len(h))

\* "human_evaluator" if i%2 else "model"
Speaker(n) == IF n % 2 = 1 THEN "human_evaluator" ELSE "model"

\* "not raw_text"
IsEmptyNever(x) == FALSE
IsEmpty(x) == x = ""

\* what the user may type at the ">>> " prompt
RawTexts == {"", "hi"}

\* with open(..., 'a') as outfile: json.dump(...); outfile.write('\n')
DumpOverwrite(f, dialog) == <<dialog>>
Dump(f, dialog) == Append(f, dialog)

\* build_input_from_segments: the speaker token prefixed to each utterance of
\* history (sequence[1:], enumerated from 0)
SpeakerTags(h) ==
    [k \in 1..Len(h) |-> IF (k - 1) % 2 = 1 THEN "speaker2" ELSE "speaker1"]

Utterance(kind, c, n) == [kind |-> kind, conv |-> c, n |-> n]

(***************************************************************************)
(* run()                                                                   *)
(***************************************************************************)
IdleSample ==
    /\ s_pc = "idle" /\ s_args = <<>> /\ s_i = 0 /\ current_output = <<>>
    /\ probs = <<>> /\ prev = 0 /\ warned = FALSE
IdleFilter ==
    /\ f_pc = "idle" /\ f_args = <<>> /\ f_logits = <<>> /\ f_out = <<>>
IdleRun ==
    /\ pc = "idle" /\ lang = "" /\ self_play = FALSE /\ max_turns = 1
    /\ personalities = "" /\ history = <<>> /\ j = 0 /\ i = 0 /\ starter = ""
    /\ self_conversations = <<>> /\ outfile = <<>> /\ raw_text = ""
    /\ turn = 0 /\ calls = 0

Init ==
    /\ pc = "lang"
    /\ lang = ""
    /\ self_play \in BOOLEAN
    /\ max_turns \in 1..MaxTurnsArg
    /\ personalities = ""
    /\ history = <<>>
    /\ j = 0 /\ i = 0
    /\ starter = ""
    /\ self_conversations = <<>>
    /\ outfile = <<>>
    /\ raw_text = ""
    /\ turn = 0
    /\ calls = 0
    /\ IdleSample /\ IdleFilter

\* lines 161-165: read a language; re-prompt while it is not in the list
ChooseLanguage(x) ==
    /\ pc = "lang"
    /\ IF LangRejected(x)
       THEN /\ lang' = x
            /\ pc' = "lang"
       ELSE /\ lang' = FormatLang(x)
            /\ pc' = "dataset"
    /\ UNCHANGED <<self_play, max_turns, personalities, history, j, i, starter,
                   self_conversations, outfile, raw_text, turn, calls>>
    /\ UNCHANGED <<sample_vars, filter_vars>>

\* lines 167-176, 216-218: load the dataset, read LANG_MAP[lang], branch
LoadDataset ==
    /\ pc = "dataset"
    /\ IF lang \in DOMAIN LANG_MAP
       THEN /\ personalities' = LANG_MAP[lang]
            /\ pc' = IF self_play THEN "conversation" ELSE "prompt"
       ELSE /\ personalities' = personalities
            /\ pc' = "KeyError"
    /\ history' = <<>>
    /\ UNCHANGED <<lang, self_play, max_turns, j, i, starter,
                   self_conversations, outfile, raw_text, turn, calls>>
    /\ UNCHANGED <<sample_vars, filter_vars>>

\* lines 177-197: start self-play conversation j
StartConversation(s) ==
    /\ pc = "conversation"
    /\ j < N_CONVERSATIONS
    /\ IF lang \in DOMAIN starters
       THEN /\ s \in 1..Len(starters[lang])
            /\ starter' = starters[lang][s]
            /\ self_conversations' =
                   <<[speaker |-> "human_evaluator", text |-> Utterance("starter", j, 0)]>>
            /\ history' = Append(history, Utterance("starter", j, 0))
            /\ i' = 0
            /\ pc' = "sample"
       ELSE /\ s = 1
            /\ pc' = "KeyError"
            /\ UNCHANGED <<starter, self_conversations, history, i>>
    /\ UNCHANGED <<lang, self_play, max_turns, personalities, j, outfile,
                   raw_text, turn, calls>>
    /\ UNCHANGED <<sample_vars, filter_vars>>

\* lines 199-211: one self-play turn
SelfPlayTurn ==
    /\ pc = "sample"
    /\ self_play
    /\ i < N_TURNS
    /\ LET out_ids == Utterance("reply", j, i)
       IN  /\ history' = Truncate(Append(history, out_ids), max_turns)
           /\ self_conversations' =
                  Append(self_conversations, [speaker |-> Speaker(i), text |-> out_ids])
    /\ calls' = calls + 1
    /\ i' = i + 1
    /\ pc' = IF i + 1 = N_TURNS THEN "dump" ELSE "sample"
    /\ UNCHANGED <<lang, self_play, max_turns, personalities, j, starter,
                   outfile, raw_text, turn>>
    /\ UNCHANGED <<sample_vars, filter_vars>>

\* lines 212-214: append the conversation to the transcript
DumpConversation ==
    /\ pc = "dump"
    /\ IF lang \in DOMAIN LANG_MAP
       THEN /\ outfile' = Dump(outfile, self_conversations)
            /\ j' = j + 1
            /\ pc' = IF j + 1 = N_CONVERSATIONS THEN "done" ELSE "conversation"
       ELSE /\ pc' = "KeyError"
            /\ UNCHANGED <<outfile, j>>
    /\ UNCHANGED <<lang, self_play, max_turns, personalities, history, i,
                   starter, self_conversations, raw_text, turn, calls>>
    /\ UNCHANGED <<sample_vars, filter_vars>>

\* lines 221-225: read a prompt; re-prompt while it is empty
Prompt(x) ==
    /\ pc = "prompt"
    /\ turn < MaxInteractive
    /\ raw_text' = x
    /\ IF IsEmpty(x)
       THEN /\ pc' = "prompt"
            /\ history' = history
       ELSE /\ pc' = "sample"
            /\ history' = Append(history, Utterance("user", 0, turn))
    /\ UNCHANGED <<lang, self_play, max_turns, personalities, j, i, starter,
                   self_conversations, outfile, turn, calls>>
    /\ UNCHANGED <<sample_vars, filter_vars>>

\* lines 226-234: generate the reply of the interactive turn
InteractiveTurn ==
    /\ pc = "sample"
    /\ ~self_play
    /\ LET out_ids == Utterance("reply", 0, turn)
       IN  history' = Truncate(Append(history, out_ids), max_turns)
    /\ calls' = calls + 1
    /\ turn' = turn + 1
    /\ pc' = "prompt"
    /\ UNCHANGED <<lang, self_play, max_turns, personalities, j, i, starter,
                   self_conversations, outfile, raw_text>>
    /\ UNCHANGED <<sample_vars, filter_vars>>

Next ==
    \/ \E x \in LangInputs : ChooseLanguage(x)
    \/ LoadDataset
    \/ \E s \in 1..3 : StartConversation(s)
    \/ SelfPlayTurn
    \/ DumpConversation
    \/ \E x \in RawTexts : Prompt(x)
    \/ InteractiveTurn

Spec == Init /\ [][Next]_vars

(***************************************************************************)
(* Properties of run()                                                     *)
(***************************************************************************)
\* a turn has been completed and nothing was appended to history since
AfterTurn ==
    /\ calls > 0
    /\ \/ pc \in {"prompt", "dump", "conversation", "done"}
       \/ pc = "sample" /\ self_play /\ i > 0

\* sample_sequence is about to be called with the current history
AtCall == pc = "sample"

IsSuffix(a, b) ==
    /\ Len(a) <= Len(b)
    /\ a = SubSeq(b, Len(b) - Len(a) + 1, Len(b))

\* C1: for max_turns >= 1, in both modes, after every completed turn (reply
\* appended, history truncated) history holds at most max_turns utterances.
C1_HistoryCapped ==
    (max_turns >= 1 /\ AfterTurn) => Len(history) <= max_turns

C1_Witness ==
    /\ AfterTurn
    /\ calls > max_turns + 1
    /\ Len(history) = max_turns

\* C2 (as stated): at every call of sample_sequence made by run, the history
\* passed to the model contains at most max_turns utterances.
C2_AtMostMaxTurnsAtCall ==
    AtCall => Len(history) <= max_turns

\* C2 (amended): at every call of sample_sequence made by run, the history
\* passed to the model contains at most max_turns + 1 utterances: the at most
\* max_turns kept by the last truncation and the one appended since.
C2_AtMostMaxTurnsPlusOneAtCall ==
    AtCall => Len(history) <= max_turns + 1

C2_Witness ==
    /\ AtCall
    /\ ~self_play
    /\ Len(history) = max_turns + 1

\* C3: while the program is at the language prompt the last input was not one
\* of the seven languages and nothing else has happened (no dataset load, no
\* generation, no transcript); the program is past the prompt only with one of
\* the seven languages, and then LANG_MAP[lang] and starters[lang] are defined
\* (no KeyError is ever raised).
C3_LanguageSelection ==
    /\ pc = "lang" =>
          /\ lang \notin LANGS
          /\ personalities = "" /\ history = <<>> /\ calls = 0
          /\ outfile = <<>> /\ self_conversations = <<>> /\ starter = ""
    /\ pc # "lang" =>
          /\ \E x \in LANGS : lang = FormatLang(x)
          /\ lang \in DOMAIN LANG_MAP
          /\ lang \in DOMAIN starters
    /\ pc # "KeyError"
    /\ pc \notin {"lang", "dataset"} => personalities = LANG_MAP[lang]
    /\ starter # "" => \E s \in 1..3 : starter = starters[lang][s]

C3_Witness ==
    /\ pc = "sample"
    /\ self_play
    /\ lang = "<jp>"
    /\ personalities = "Jp"
    /\ starter = starters["<jp>"][3]

\* C4: in interactive mode an empty prompt changes neither history nor the
\* number of sample_sequence calls and leads back to the prompt; a non-empty
\* prompt appends exactly one user utterance and is followed by exactly one
\* call of sample_sequence, whose reply is appended after it.
C4_PromptStep ==
    pc = "prompt" =>
        IF raw_text' = ""
        THEN /\ history' = history
             /\ calls' = calls
             /\ pc' = "prompt"
        ELSE /\ history' = Append(history, Utterance("user", 0, turn))
             /\ calls' = calls
             /\ pc' = "sample"

C4_ReplyStep ==
    (pc = "sample" /\ ~self_play) =>
        /\ history # <<>>
        /\ history[Len(history)] = Utterance("user", 0, turn)
        /\ calls' = calls + 1
        /\ pc' = "prompt"
        /\ history' # <<>>
        /\ IsSuffix(history', Append(history, Utterance("reply", 0, turn)))

C4_EmptyPromptReprompts ==
    [][C4_PromptStep /\ C4_ReplyStep]_vars

C4_Witness ==
    /\ pc = "prompt"
    /\ turn >= 2
    /\ raw_text = ""
    /\ calls = turn

\* a transcript line of conversation c: the starter, then the 13 replies in
\* order, speakers alternating from human_evaluator
RecordOK(d, c) ==
    /\ Len(d) = N_TURNS + 1
    /\ d[1] = [speaker |-> "human_evaluator", text |-> Utterance("starter", c, 0)]
    /\ \A m \in 2..(N_TURNS + 1) : d[m].text = Utterance("reply", c, m - 2)
    /\ \A m \in 1..N_TURNS : d[m].speaker # d[m + 1].speaker

\* C6: each completed self-play conversation appends exactly one record; after
\* the k-th conversation exactly k records have been appended (50 at the end);
\* every record is the starter followed by the 13 generated turns, speakers
\* alternating from human_evaluator; records already written are never
\* changed or removed, and a record is written only when a conversation ends.
C6_TranscriptState ==
    /\ Len(outfile) = j
    /\ pc = "done" => Len(outfile) = N_CONVERSATIONS
    /\ \A k \in 1..Len(outfile) : RecordOK(outfile[k], k - 1)

C6_TranscriptStep ==
    /\ Len(outfile') >= Len(outfile)
    /\ SubSeq(outfile', 1, Len(outfile)) = outfile
    /\ IF pc = "dump" /\ pc' # "dump"
       THEN outfile' = Append(outfile, self_conversations)
       ELSE outfile' = outfile

C6_TranscriptAppendOnly ==
    []C6_TranscriptState /\ [][C6_TranscriptStep]_vars

C6_Witness ==
    /\ pc = "done"
    /\ Len(outfile) = N_CONVERSATIONS
    /\ j = N_CONVERSATIONS

\* C9: in interactive mode the user's latest utterance (the last element of
\* history at the call of sample_sequence) carries the same speaker token at
\* every call: speaker1, the token it carries at the first call.
C9_UserSpeakerStable ==
    (AtCall /\ ~self_play) => SpeakerTags(history)[Len(history)] = "speaker1"

\* C10: at the first call of sample_sequence of every self-play conversation
\* the history consists only of that conversation's starter utterance.
C10_ConversationsIndependent ==
    (AtCall /\ self_play /\ i = 0) => history = <<Utterance("starter", j, 0)>>

(***************************************************************************)
(* top_filtering()                                                         *)
(***************************************************************************)
FilterVocabSize == 4    \* size of the vocabulary given to top_filtering
FilterMaxWeight == 3    \* weights (exp of a logit) range over 1..FilterMaxWeight

\* values of top_p as <<numerator, denominator>>; 9/10 is the default
TopPs == {<<0, 1>>, <<1, 4>>, <<1, 2>>, <<9, 10>>, <<1, 1>>, <<3, 2>>}

RECURSIVE SumOver(_, _)
SumOver(l, S) ==
    IF S = {} THEN 0
    ELSE LET t == CHOOSE x \in S : TRUE IN l[t] + SumOver(l, S \ {t})

Total(l) == SumOver(l, DOMAIN l)

\* torch.sort(logits, descending=True): sorted_indices; the order of equal
\* logits is not specified, every descending arrangement is possible
IsDescending(l, p) ==
    \A a \in DOMAIN l : a < Len(l) => l[p[a]] >= l[p[a + 1]]

\* torch.cumsum(F.softmax(sorted_logits))[k], times Total(l)
RECURSIVE Cumulative(_, _, _)
Cumulative(l, p, k) ==
    IF k = 0 THEN 0 ELSE Cumulative(l, p, k - 1) + l[p[k]]

\* torch.topk(logits, top_k)[0][..., -1]: the top_k-th largest value
KthLargest(l, k) ==
    CHOOSE v \in {l[t] : t \in DOMAIN l} :
        /\ Cardinality({t \in DOMAIN l : l[t] > v}) < k
        /\ Cardinality({t \in DOMAIN l : l[t] >= v}) >= k

\* lines 51-55
TopK(l, top_k) ==
    LET k == IF top_k < Len(l) THEN top_k ELSE Len(l)
    IN  IF k > 0
        THEN [t \in DOMAIN l |-> IF l[t] < KthLargest(l, k) THEN 0 ELSE l[t]]
        ELSE l

\* line 63: cumulative_probabilities > top_p, at sorted position k
AboveTopP(l, p, k, top_p) ==
    Cumulative(l, p, k) * top_p[2] > top_p[1] * Total(l)

\* lines 63-66: sorted_indices_to_remove after the shift to the right
SortedToRemoveNoShift(l, p, k, top_p) == AboveTopP(l, p, k, top_p)
SortedToRemove(l, p, k, top_p) ==
    IF k = 1 THEN FALSE ELSE AboveTopP(l, p, k - 1, top_p)

\* lines 57-70
TopP(l, p, top_p) ==
    IF top_p[1] > 0
    THEN LET removed == {p[k] : k \in {m \in DOMAIN l : SortedToRemove(l, p, m, top_p)}}
         IN  [t \in DOMAIN l |-> IF t \in removed THEN 0 ELSE l[t]]
    ELSE l

\* lines 72-73 (threshold as a weight; the default -inf is weight 0)
Threshold(l, threshold) ==
    [t \in DOMAIN l |-> IF l[t] < threshold THEN 0 ELSE l[t]]

\* p is a sort top_filtering may make of its input (after the top-k step)
Sorts(l, top_k, p) == IsDescending(TopK(l, top_k), p)

\* top_filtering(logits, top_k, top_p, threshold), sorting as p
top_filtering(l, top_k, top_p, threshold, p) ==
    Threshold(TopP(TopK(l, top_k), p, top_p), threshold)

FilterArgs ==
    [top_k : {0, 1, 2}, top_p : TopPs, threshold : {0, 2}]

InitFilter ==
    /\ IdleRun /\ IdleSample
    /\ f_pc = "call"
    /\ f_args \in FilterArgs
    /\ f_logits \in [1..FilterVocabSize -> 1..FilterMaxWeight]
    /\ f_out = <<>>

TopFiltering(p) ==
    /\ f_pc = "call"
    /\ Sorts(f_logits, f_args.top_k, p)
    /\ f_out' = top_filtering(f_logits, f_args.top_k, f_args.top_p, f_args.threshold, p)
    /\ f_pc' = "returned"
    /\ UNCHANGED <<f_args, f_logits>>
    /\ UNCHANGED <<run_vars, sample_vars>>

NextFilter == \E p \in Permutations(1..FilterVocabSize) : TopFiltering(p)

SpecFilter == InitFilter /\ [][NextFilter]_vars

\* the tokens top_filtering kept
Kept == {t \in DOMAIN f_out : f_out[t] # 0}

\* the cumulative probability of the token set S exceeds top_p
Exceeds(S) ==
    SumOver(f_logits, S) * f_args.top_p[2] > f_args.top_p[1] * Total(f_logits)

NucleusCall ==
    /\ f_pc = "returned"
    /\ f_args.top_p[1] > 0
    /\ f_args.top_k = 0
    /\ f_args.threshold = 0

SampleMaxLength == 3    \* --max_length and --min_length range over 0..SampleMaxLength
SampleMaxWeight == 2    \* weights of the model's output range over 1..SampleMaxWeight

\* special_tokens_ids, and the vocabulary: the special tokens and one other
special_tokens_ids == {1, 2}
Vocab == 1..3

SampleArgs ==
    [min_length : 0..SampleMaxLength, max_length : 0..SampleMaxLength,
     no_sample : BOOLEAN, top_k : {0}, top_p : {<<0, 1>>, <<2, 5>>, <<9, 10>>}]

\* tokens torch.multinomial(probs, 1) can return
Support(pr) == {t \in DOMAIN pr : pr[t] > 0}

\* tokens torch.topk(probs, 1)[1] can return
ArgMax(pr) == {t \in DOMAIN pr : \A u \in DOMAIN pr : pr[t] >= pr[u]}

\* probs.max().item() == 1
MaxProbIsOne(pr) == \E t \in DOMAIN pr : pr[t] > 0 /\ pr[t] = Total(pr)

InitSample ==
    /\ IdleRun /\ IdleFilter
    /\ s_pc = "for"
    /\ s_args \in SampleArgs
    /\ s_i = 0
    /\ current_output = <<>>
    /\ probs = <<>>
    /\ prev = 0
    /\ warned = FALSE

\* lines 83-103: one forward pass, filtering, softmax and the first draw
Forward(logits, p, t) ==
    /\ s_pc = "for"
    /\ s_i < s_args.max_length
    /\ Sorts(logits, s_args.top_k, p)
    /\ LET pr == top_filtering(logits, s_args.top_k, s_args.top_p, 0, p)
       IN  /\ probs' = pr
           /\ t \in (IF s_args.no_sample THEN ArgMax(pr) ELSE Support(pr))
    /\ prev' = t
    /\ s_pc' = "line104"
    /\ UNCHANGED <<s_args, s_i, current_output, warned>>
    /\ UNCHANGED <<run_vars, filter_vars>>

\* line 83: range(args.max_length) is exhausted
ForExhausted ==
    /\ s_pc = "for"
    /\ s_i >= s_args.max_length
    /\ s_pc' = "return"
    /\ UNCHANGED <<s_args, s_i, current_output, probs, prev, warned>>
    /\ UNCHANGED <<run_vars, filter_vars>>

\* line 104
EntersResampling(n, min_length, tok) ==
    n < min_length /\ tok \in special_tokens_ids

Line104 ==
    /\ s_pc = "line104"
    /\ s_pc' = IF EntersResampling(s_i, s_args.min_length, prev)
               THEN "while" ELSE "line111"
    /\ UNCHANGED <<s_args, s_i, current_output, probs, prev, warned>>
    /\ UNCHANGED <<run_vars, filter_vars>>

\* lines 105-109: one evaluation of the while condition and its body
While(t) ==
    /\ s_pc = "while"
    /\ IF prev \notin special_tokens_ids
       THEN /\ s_pc' = "line111"
            /\ t = prev
            /\ UNCHANGED <<prev, warned>>
       ELSE IF MaxProbIsOne(probs)
       THEN /\ warned' = TRUE
            /\ s_pc' = "line111"
            /\ t = prev
            /\ UNCHANGED prev
       ELSE /\ t \in Support(probs)
            /\ prev' = t
            /\ s_pc' = "while"
            /\ UNCHANGED warned
    /\ UNCHANGED <<s_args, s_i, current_output, probs>>
    /\ UNCHANGED <<run_vars, filter_vars>>

\* lines 111-113
Line111 ==
    /\ s_pc = "line111"
    /\ IF prev \in special_tokens_ids
       THEN /\ s_pc' = "return"
            /\ UNCHANGED <<s_i, current_output>>
       ELSE /\ current_output' = Append(current_output, prev)
            /\ s_i' = s_i + 1
            /\ s_pc' = "for"
    /\ UNCHANGED <<s_args, probs, prev, warned>>
    /\ UNCHANGED <<run_vars, filter_vars>>

NextSample ==
    \/ \E logits \in [Vocab -> 1..SampleMaxWeight] :
         \E p \in Permutations(Vocab) : \E t \in Vocab : Forward(logits, p, t)
    \/ ForExhausted
    \/ Line104
    \/ \E t \in Vocab : While(t)
    \/ Line111

SpecSample == InitSample /\ [][NextSample]_vars

\* C7: a call of sample_sequence with current_output=None and
\* min_length <= max_length returns a reply of at least min_length and at most
\* max_length tokens.
C7_ReplyLengthWithinBounds ==
    (s_pc = "return" /\ s_args.min_length <= s_args.max_length) =>
        /\ Len(current_output) >= s_args.min_length
        /\ Len(current_output) <= s_args.max_length

\* sample_sequence keeps taking steps, and inside the resampling loop every
\* token of non-zero probability is drawn again and again
FairSpecSample ==
    /\ SpecSample
    /\ WF_vars(NextSample)
    /\ \A t \in Vocab : SF_vars(While(t))

\* C8: assuming every token of non-zero probability is eventually drawn, the
\* resampling loop is left and every call of sample_sequence returns.
C8_SampleSequenceTerminates ==
    <>(s_pc = "return")

====
